---- MODULE Spec2Model ----
(***************************************************************************)
(* Model of the mock HTTP API server of tests/infrastructure/external_apis *)
(* (server.py): payload resolution from an OpenAPI document with           *)
(* x-mock-payload extensions, the per-instance lifecycle state (_state),   *)
(* and the request dispatcher (_handle_request).                           *)
(*                                                                         *)
(* Representation of strings.  A path is the sequence of its segments      *)
(* between "/" (the leading empty segment that str.split yields on both    *)
(* the template and the actual path is left out).  A payload file name is  *)
(* the sequence of the pieces of its stem.  A piece is a literal without   *)
(* digits or braces (Lit), a maximal run of decimal digits in canonical    *)
(* form (Num), or a brace placeholder "{name}" (Param).                    *)
(***************************************************************************)
EXTENDS Integers, Sequences, FiniteSets, TLC

\* ---------------------------------------------------------------- bounds
\* ids 1..MaxId are requested, besides StatusId and MissingId
MaxId == 1
\* string values "v1".."vMaxVal" a request body can supply for a field
MaxVal == 1

\* an id equal to a status code, and an id for which no file is dedicated
StatusId == 200
MissingId == 999

\* ---------------------------------------------------------- string pieces
Lit(s) == [k |-> "lit", s |-> s, n |-> 0]
Num(n) == [k |-> "num", s |-> "", n |-> n]
Param(s) == [k |-> "param", s |-> s, n |-> 0]

\* ------------------------------------------------------------ JSON values
JNull == [t |-> "null", n |-> 0]
JInt(n) == [t |-> "int", n |-> n]
\* JStr(n) stands for a string; different n are different strings
JStr(n) == [t |-> "str", n |-> n]

\* A JSON document: an object (d maps field names to values), an array
\* (d is the sequence of its items) or text that json.load rejects.
JObject(d) == [kind |-> "dict", d |-> d]
JArray(d) == [kind |-> "list", d |-> d]
JInvalid == [kind |-> "invalid", d |-> <<>>]
\* Python's None, and the marker of an exception that propagates
None == [kind |-> "none", d |-> <<>>]
Raised == [kind |-> "raise", d |-> <<>>]

\* Python truthiness of a payload: None, {} and [] are falsy
Truthy(p) == p.kind \in {"dict", "list"} /\ DOMAIN p.d # {}

\* dict.update: entries of b win
DictUpdate(a, b) ==
    [f \in DOMAIN a \cup DOMAIN b |-> IF f \in DOMAIN b THEN b[f] ELSE a[f]]

\* a one-entry dict
Entry(f, v) == [x \in {f} |-> v]

\* ------------------------------------------------- spec configurations

\* payload file names (stems)
\* (every name is built from the same pieces, so that one string has one
\* representation: "GET_posts_latest_200" is NameItem("GET", Lit("latest"), 200))
NameColl(verb, status) == <<Lit(verb), Lit("_posts_"), Num(status)>>
NameItem(verb, id_piece, status) ==
    <<Lit(verb), Lit("_posts_"), id_piece, Lit("_"), Num(status)>>
NameList == NameColl("GET", 200)
NamePost == NameColl("POST", 201)
NameLatest == NameItem("GET", Lit("latest"), 200)
NameVersioned(verb, status) ==
    <<Lit(verb), Lit("_"), Param("v"), Lit("_posts_"), Num(1), Lit("_"),
      Num(status)>>

\* file contents
Post(id, t) ==
    JObject([f \in {"id", "title", "body"} |->
               IF f = "id" THEN JInt(id)
               ELSE IF f = "title" THEN JStr(t) ELSE JStr(t + 1)])
NotFoundBody ==
    JObject([f \in {"error", "message"} |->
               IF f = "error" THEN JStr(910) ELSE JStr(911)])

\* the payload directory: the files of the posts API as the code-level
\* mock names them (GET_posts_1_200, GET_posts_999_404, PUT_posts_1_200)
FsPlain ==
    (NameList :> JArray(<<Post(1, 10), Post(2, 20)>>))
    @@ (NameLatest :> Post(2, 20))
    @@ (NamePost :> Post(101, 30))
    @@ (NameItem("GET", Num(1), 200) :> Post(1, 10))
    @@ (NameItem("PUT", Num(1), 200) :> Post(1, 40))
    @@ (NameItem("PATCH", Num(1), 200) :> Post(1, 50))
    @@ (NameItem("GET", Num(MissingId), 404) :> NotFoundBody)

\* the same directory with template files whose names keep their braces
FsTemplates ==
    FsPlain
    @@ (NameItem("GET", Param("id"), 200) :> Post(1, 70))
    @@ (NameItem("PUT", Param("id"), 200) :> Post(1, 80))
    @@ (NameItem("GET", Param("id"), 404) :> NotFoundBody)
    @@ (NameVersioned("GET", 200) :> Post(1, 90))
    @@ (NameVersioned("PUT", 200) :> Post(1, 100))

\* a directory with an array as the 201 template, an empty object as the
\* 404 payload, and a file for id 200 and the file of /posts/latest that
\* are not valid JSON
FsOdd ==
    (NamePost :> JArray(<<Post(101, 30)>>))
    @@ (NameLatest :> JInvalid)
    @@ (NameItem("GET", Num(MissingId), 404) :> JObject(<<>>))
    @@ (NameItem("GET", Num(StatusId), 200) :> JInvalid)
    @@ FsPlain

\* the plain directory with a file of item 1 that is not valid JSON
FsBroken ==
    (NameItem("GET", Num(1), 200) :> JInvalid)
    @@ FsPlain

Dirs == {"plain", "templates", "odd", "broken"}
FileSystem(dir) ==
    CASE dir = "plain" -> FsPlain
      [] dir = "templates" -> FsTemplates
      [] dir = "odd" -> FsOdd
      [] dir = "broken" -> FsBroken

Styles == {"specific", "placeholder", "versioned"}
NotFoundStyles == {"none", "specific", "placeholder"}
Layouts == {"latest-item", "item-latest"}

ItemName(verb, style, status) ==
    CASE style = "specific" -> NameItem(verb, Num(1), status)
      [] style = "placeholder" -> NameItem(verb, Param("id"), status)
      [] style = "versioned" -> NameVersioned(verb, status)

\* responses of an operation on /posts/{id}: status code -> x-mock-payload
ItemResponses(verb, style, nf) ==
    ("200" :> ItemName(verb, style, 200))
    @@ (IF nf = "none" THEN <<>>
        ELSE IF nf = "specific"
        THEN ("404" :> NameItem("GET", Num(MissingId), 404))
        ELSE ("404" :> NameItem("GET", Param("id"), 404)))

\* A path item: ops maps each method declared with a non-empty operation
\* object to its responses; hollow holds the methods declared with an
\* empty one ("put: {}").  /posts/latest also declares HEAD.
PathList ==
    [template |-> <<Lit("posts")>>,
     hollow |-> {},
     ops |-> ("get" :> ("200" :> NameList)) @@ ("post" :> ("201" :> NamePost))]
PathLatest ==
    [template |-> <<Lit("posts"), Lit("latest")>>,
     hollow |-> {"put"},
     ops |-> ("get" :> ("200" :> NameLatest))
             @@ ("head" :> ("200" :> NameLatest))]
PathItem(style, nf, writable) ==
    [template |-> <<Lit("posts"), Param("id")>>,
     hollow |-> {},
     ops |-> ("get" :> ItemResponses("GET", style, nf))
             @@ ("delete" :> <<>>)
             @@ (IF writable
                 THEN ("put" :> ItemResponses("PUT", style, nf))
                      @@ ("patch" :> ItemResponses("PATCH", style, nf))
                      @@ ("post" :> ("201" :> NamePost))
                 ELSE <<>>)]

MkSpec(style, nf, writable, layout) ==
    [paths |->
        CASE layout = "latest-item" ->
                <<PathList, PathLatest, PathItem(style, nf, writable)>>
          [] layout = "item-latest" ->
                <<PathList, PathItem(style, nf, writable), PathLatest>>]

\* The OpenAPI documents and payload directories a server is built on.  A
\* spec path names one document and, as its parent, one directory.
SpecPaths ==
    {p \in [style : Styles, nf : NotFoundStyles, layout : Layouts, dir : Dirs] :
        \/ /\ p.dir = "plain"
           /\ p.style \in {"specific", "placeholder"}
        \/ /\ p.dir = "templates"
           /\ p.style \in {"placeholder", "versioned"}
           /\ p.nf \in {"none", "placeholder"}
           /\ p.layout = "latest-item"
        \/ /\ p.dir = "odd"
           /\ p.style \in {"specific", "placeholder"}
           /\ p.nf = "specific"
           /\ p.layout = "latest-item"
        \/ /\ p.dir = "broken"
           /\ p.style = "specific"
           /\ p.nf = "specific"
           /\ p.layout = "latest-item"}

\* a function given by a rule, as the table of its values
RECURSIVE Table(_, _)
Table(f, S) ==
    IF S = {} THEN <<>>
    ELSE LET p == CHOOSE x \in S : TRUE IN (p :> f[p]) @@ Table(f, S \ {p})
SpecDocuments ==
    Table([p \in SpecPaths |-> MkSpec(p.style, p.nf, TRUE, p.layout)], SpecPaths)
Directories == Table([p \in SpecPaths |-> FileSystem(p.dir)], SpecPaths)

VARIABLES self_spec_path, _state, req, resp, deleted204, seen, revived,
          resolved

\* the listener: the thread that runs the uvicorn server ("none" before the
\* first start), whether something accepts connections on the port, where
\* a start() call stands, the polls it has made, and (history) whether a
\* poll has connected since the thread was created
VARIABLES _server_thread, listening, start_pc, attempt, accepted

listener == <<_server_thread, listening, start_pc, attempt, accepted>>

\* the test session that uses a session-scoped fixture: its phase and the
\* number of the test that runs
VARIABLES session

\* several instances in one process: the dict objects by identity (heap),
\* the instances built so far, each with the identity of its _state dict,
\* the instance whose method runs (self, 0 before any runs; _state is then
\* the content of self's dict), and (history) per instance the status of
\* its last GET since its own last DELETE, reset_state() or stop() (0 when
\* there is none)
VARIABLES heap, instances, self, since

\* what is on disk at spec_path when the constructor runs, and the
\* exception the last constructor call ended with ("" when none has)
VARIABLES spec_file, raised

construction == <<spec_file, raised>>

\* the requests in flight on the event loop of one server: per slot the
\* method and path of the request and the place its handler has reached
VARIABLES tasks

eventloop == <<tasks>>

\* one OpenAPISpecLoader: its cached document (_spec: "None" or
\* "document") and the identity of its endpoint map (0 for None); the dict
\* objects by identity (maps) and the identities list_endpoints() handed
\* to callers (handed); the result of the last call (answer); and
\* (history) whether a _load_spec() has returned, the number of times the
\* file was read, of reads after a load had returned, and of map builds
VARIABLES _spec, _endpoint_map, maps, handed, answer, loaded, reads, rereads,
          builds

loader == <<_spec, _endpoint_map, maps, handed, answer, loaded, reads,
            rereads, builds>>

\* the last call of _resolve_path_params on strings: its arguments and
\* its result
VARIABLES extracted

extraction == <<extracted>>

\* the ports of one server: self.port and self._actual_port (0 for None);
\* the should_exit flag of the uvicorn server of the current thread; and
\* (history) the number of threads start() has created, the value the
\* last start() returned (0 when it has not returned one) and the last
\* result of get_base_url()
VARIABLES port, _actual_port, should_exit, threads, returned, base_url

lifecycle == <<port, _actual_port, should_exit, threads, returned, base_url>>

\* the code-level mock of the CRUD tests (mock_external_api): its set of
\* deleted ids and the status of its last response
VARIABLES deleted_posts, mock_response

codemock == <<deleted_posts, mock_response>>

aside == <<extraction, lifecycle, codemock>>

\* the state of the parts a specification may leave aside
rest == <<eventloop, loader, aside>>

process == <<heap, instances, self, since, construction, rest>>

vars == <<self_spec_path, _state, req, resp, deleted204, seen, revived,
          resolved, listener, session, process>>

\* ------------------------------------------------------- pure functions

\* spec_loader._load_spec(): the parsed document at self.spec_path
spec == SpecDocuments[self_spec_path]

\* the files under self.spec_dir
fs == Directories[self_spec_path]

\* _load_json_file, called on a path that exists: json.load of the file
_load_json_file(file_path) ==
    IF fs[file_path].kind = "invalid" THEN Raised ELSE fs[file_path]

\* Path.exists()
Exists(file_path) == file_path \in DOMAIN fs

\* _resolve_path_params: positional zip of template and actual segments;
\* nothing when the segment counts differ
_resolve_path_params(path_template, actual_path) ==
    IF Len(path_template) # Len(actual_path) THEN <<>>
    ELSE LET idx(name) == {i \in 1..Len(path_template) :
                             /\ path_template[i].k = "param"
                             /\ path_template[i].s = name}
             names == {path_template[i].s : i \in
                         {j \in 1..Len(path_template) : path_template[j].k = "param"}}
             last(S) == CHOOSE i \in S : \A j \in S : j <= i
         IN [name \in names |-> actual_path[last(idx(name))]]

\* _path_matches: each "{...}" of the template becomes [^/]+ and the
\* result is matched against the whole actual path
_path_matches(template, actual) ==
    /\ Len(template) = Len(actual)
    /\ \A i \in 1..Len(template) :
          \/ template[i].k = "param"
          \/ template[i] = actual[i]

\* str(payload_path_template).format(**path_params): ok is FALSE when the
\* name has a placeholder that path_params lacks (KeyError)
Format(name, path_params) ==
    [ok   |-> \A i \in 1..Len(name) :
                 name[i].k = "param" => name[i].s \in DOMAIN path_params,
     name |-> [i \in 1..Len(name) |->
                 IF name[i].k = "param" /\ name[i].s \in DOMAIN path_params
                 THEN path_params[name[i].s] ELSE name[i]]]

\* re.findall(r'(\d+)', template_name): the digit runs, in order
FindAllNumbers(name) == SelectSeq(name, LAMBDA x : x.k = "num")

\* int(s) of a path segment: defined on digit runs only (else ValueError)
IsInt(seg) == seg.k = "num"
int(seg) == seg.n

\* the payload of strategy 2: the template file with its id relabelled
Relabel(payload, requested_id) ==
    IF payload.kind = "dict"
    THEN JObject(DictUpdate(payload.d, Entry("id", JInt(int(requested_id)))))
    ELSE payload

Found(payload, params, file) ==
    [payload |-> payload, params |-> params, file |-> file]

\* _find_matching_payload, from the i-th declared path on.  The result
\* carries the payload (None when nothing resolves, Raised when json.load
\* fails), the caller's path_params dict as the loop leaves it (line 111
\* updates it in place) and the name of the file the payload was read from.
RECURSIVE FindFrom(_, _, _, _, _)
FindFrom(i, method, path, status_code, path_params) ==
    IF i > Len(spec.paths) THEN Found(None, path_params, <<>>)
    ELSE
    LET spec_path == spec.paths[i].template
        path_item == spec.paths[i].ops
    IN
    IF ~_path_matches(spec_path, path)
    THEN FindFrom(i + 1, method, path, status_code, path_params)
    ELSE
    LET params == DictUpdate(path_params, _resolve_path_params(spec_path, path))
        skip   == FindFrom(i + 1, method, path, status_code, params)
    IN
    IF method \notin DOMAIN path_item THEN skip
    ELSE IF status_code \notin DOMAIN path_item[method] THEN skip
    ELSE
    LET payload_path_template == path_item[method][status_code]
    IN
    IF "id" \in DOMAIN params
    THEN
        LET requested_id == params["id"]
            formatted == Format(payload_path_template, params)
            numbers == FindAllNumbers(payload_path_template)
            id_in_name ==
                IF Len(numbers) > 1
                THEN \E j \in 1..(Len(numbers) - 1) : numbers[j] = requested_id
                ELSE Len(numbers) = 1 /\ numbers[1] = requested_id
        IN
        \* strategy 1; "except (KeyError, ValueError)" also swallows the
        \* json.JSONDecodeError (a ValueError) of a file that does not parse
        IF /\ formatted.ok
           /\ Exists(formatted.name)
           /\ _load_json_file(formatted.name).kind # "raise"
        THEN Found(_load_json_file(formatted.name), params, formatted.name)
        ELSE IF ~Exists(payload_path_template) THEN skip
        ELSE IF id_in_name
        THEN LET payload == _load_json_file(payload_path_template)
             IN Found(Relabel(payload, requested_id), params, payload_path_template)
        ELSE skip
    ELSE
        IF Exists(payload_path_template)
        THEN Found(_load_json_file(payload_path_template), params,
                   payload_path_template)
        ELSE skip

_find_matching_payload(method, path, status_code, path_params) ==
    FindFrom(1, method, path, status_code, path_params)

\* ------------------------------------------------------ request handling

\* the name of this server instance (self.api_name)
api_name == "posts"

\* f"deleted_{self.api_name}_{resource_id}"
deleted_key(resource_id) == <<"deleted", api_name, resource_id>>

\* self._state.get(deleted_key)
StateGet(st, key) == key \in DOMAIN st /\ st[key]

\* a write that replaces the dict by one that holds the key alone
StateReplace(st, key) == [k \in {key} |-> TRUE]

\* self._state[deleted_key] = True
StateSet(st, key) == [k \in DOMAIN st \cup {key} |-> TRUE]

\* path_params as the caller sees it after a _find_matching_payload call:
\* "path_params or {}" hands an empty dict over as a fresh one, a non-empty
\* dict is updated in place
After(path_params, found) ==
    IF DOMAIN path_params = {} THEN path_params ELSE found.params

\* the two synthetic 404 bodies
JMsg(method, path) == [t |-> "msg", n |-> 0, method |-> method, path |-> path]
ResourceNotFound ==
    JObject([f \in {"error", "message"} |->
               IF f = "error" THEN JStr(900) ELSE JStr(901)])
NoMockPayload(method, actual_path) ==
    JObject([f \in {"error", "message"} |->
               IF f = "error" THEN JStr(900) ELSE JMsg(method, actual_path)])

\* line 324, dict.update with an array: the items are taken in order as
\* key/value pairs; the first item that is no pair raises, and the entries
\* laid before it stay in the copy
RECURSIVE UpdateItems(_, _)
UpdateItems(d, items) ==
    IF items = <<>> THEN [d |-> d, raised |-> FALSE]
    ELSE IF Head(items).kind # "pair" THEN [d |-> d, raised |-> TRUE]
    ELSE UpdateItems((Head(items).key :> Head(items).value) @@ d, Tail(items))

\* a merge in which the template's entries win over the body's
MergeBodyTemplateWins(payload, request_body, path_params) ==
    IF request_body.kind # "dict" \/ payload.kind # "dict" THEN payload
    ELSE JObject(DictUpdate(request_body.d, payload.d))

\* lines 319-333: merge of the request body into the payload.  A body of
\* kind "none" is an absent or malformed body (request.json() raises); that
\* exception and the one of dict.update are swallowed at line 332.
MergeBody(payload, request_body, path_params) ==
    IF request_body.kind = "none" \/ payload.kind # "dict" THEN payload
    ELSE IF request_body.kind = "list" /\ UpdateItems(payload.d, request_body.d).raised
    THEN JObject(UpdateItems(payload.d, request_body.d).d)
    ELSE LET merged == IF request_body.kind = "list"
                       THEN UpdateItems(payload.d, request_body.d).d
                       ELSE DictUpdate(payload.d, request_body.d)
         IN IF "id" \in DOMAIN path_params /\ IsInt(path_params["id"])
            THEN JObject(DictUpdate(merged,
                           Entry("id", JInt(int(path_params["id"])))))
            ELSE JObject(merged)

\* the methods _build_routes registers, in its order
MethodList == <<"get", "post", "put", "delete", "patch">>
Methods == {MethodList[j] : j \in 1..Len(MethodList)}

\* make_handler: the handler closes over its own arguments
make_handler(method_name, spec_path, operation_def) ==
    [method_name |-> method_name, spec_path |-> spec_path,
     operation_def |-> operation_def]

\* a _build_routes whose handlers all close over the loop variables, which
\* hold the last pair registered when a handler runs
_build_routesLateBinding(document) ==
    LET n == Len(MethodList)
        nth(k) == [path |-> document.paths[((k - 1) \div n) + 1],
                   method |-> MethodList[((k - 1) % n) + 1]]
        declared(k) == nth(k).method \in DOMAIN nth(k).path.ops
        last == CHOOSE k \in 1..(Len(document.paths) * n) :
                   /\ declared(k)
                   /\ \A l \in 1..(Len(document.paths) * n) :
                         declared(l) => l <= k
        registered == SelectSeq([k \in 1..(Len(document.paths) * n) |-> k],
                                declared)
    IN [r \in 1..Len(registered) |->
          [path |-> nth(registered[r]).path.template,
           method |-> nth(registered[r]).method,
           handler |-> make_handler(nth(last).method, nth(last).path.template,
                                    nth(last).path.ops[nth(last).method])]]

\* _build_routes: for every path of the document, in order, and every
\* method of MethodList, in order, a route is registered when the path
\* item has a non-empty operation for the method
_build_routes(document) ==
    LET n == Len(MethodList)
        nth(k) == [path |-> document.paths[((k - 1) \div n) + 1],
                   method |-> MethodList[((k - 1) % n) + 1]]
        declared(k) == nth(k).method \in DOMAIN nth(k).path.ops
        registered == SelectSeq([k \in 1..(Len(document.paths) * n) |-> k],
                                declared)
    IN [r \in 1..Len(registered) |->
          [path |-> nth(registered[r]).path.template,
           method |-> nth(registered[r]).method,
           handler |-> make_handler(nth(registered[r]).method,
                                    nth(registered[r]).path.template,
                                    nth(registered[r]).path.ops[
                                        nth(registered[r]).method])]]

\* self.app: the routes registered at construction
AppRoutes ==
    Table([p \in SpecPaths |-> _build_routes(SpecDocuments[p])], SpecPaths)
app_routes == AppRoutes[self_spec_path]

\* the router: the route that serves a request is the first registered one
\* whose path template matches and whose method is the request's; 0 when
\* no route serves it
Routes(method, actual_path) ==
    {i \in 1..Len(app_routes) :
        /\ app_routes[i].method = method
        /\ _path_matches(app_routes[i].path, actual_path)}
Route(method, actual_path) ==
    LET routes == Routes(method, actual_path)
    IN IF routes = {} THEN 0
       ELSE CHOOSE i \in routes : \A j \in routes : i <= j

\* ------------------------------------------------------------- requests
RequestIds == (1..MaxId) \cup {StatusId, MissingId}
ActualPaths ==
    {<<Lit("posts")>>, <<Lit("posts"), Lit("latest")>>}
    \cup {<<Lit("posts"), Num(i)>> : i \in RequestIds}

\* request bodies: absent or malformed, the empty object, or an object that
\* supplies one of id and title
NoBody == [kind |-> "none", d |-> <<>>]
BodyValues(f) ==
    IF f = "id" THEN {JInt(0)}
    ELSE {JStr(v) : v \in 1..MaxVal} \cup {JNull}
Bodies ==
    {NoBody, JObject(<<>>)} \cup
    UNION {{JObject(Entry(f, v)) : v \in BodyValues(f)} : f \in {"id", "title"}}
\* bodies that are JSON but not an object: [{}], [["title", "t1"]] and []
ArrayBody == JArray(<<JObject(<<>>)>>)
Pair(key, value) == [kind |-> "pair", key |-> key, value |-> value]
PairsBody == JArray(<<Pair("title", JStr(1))>>)
EmptyArray == JArray(<<>>)
Shapes(method) ==
    IF method \in {"post", "put"} THEN {"object", "array", "pairs", "empty"}
    ELSE {"object"}
BodiesOf(method, shape) ==
    CASE shape = "array" -> {ArrayBody}
      [] shape = "pairs" -> {PairsBody}
      [] shape = "empty" -> {EmptyArray}
      [] OTHER -> IF method \in {"post", "put"} THEN Bodies ELSE {NoBody}

NoRequest ==
    [method |-> "", path |-> <<>>, body |-> NoBody, method_name |-> "",
     spec_path |-> <<>>, was_deleted |-> FALSE]
NoResponse == [status |-> 0, body |-> None, file |-> <<>>]
NotResolved ==
    [method |-> "", path |-> <<>>, status_code |-> "", payload |-> None,
     file |-> <<>>]

\* ---------------------------------------------------------------- actions
\* History variables, written but never read by the handlers:
\*   deleted204  the ids whose DELETE has answered 204 since the last
\*               reset_state() or stop()
\*   req.was_deleted  whether the request's id was in deleted204 when the
\*               request arrived
\*   seen        per path, the first answer of a GET that arrived while the
\*               id was not in deleted204 (pristine: it arrived before any
\*               reset_state() or stop() revived the id)
\*   revived     the ids that were in deleted204 at a reset_state() or stop()
\* the slots of the event loop, all free
MaxTasks == 2
Idle == [method |-> "", path |-> <<>>, pc |-> "idle"]
NoTasks == [i \in 1..MaxTasks |-> Idle]

\* the value of a call that has none to show: no path, no mapping
NoPath == [dir |-> "", name |-> <<>>]
NoAnswer ==
    [call |-> "", key |-> <<>>, result |-> NoPath, listed |-> <<>>,
     raised |-> "", mutated |-> FALSE]

\* no call of get_base_url made yet
NoUrl == [raised |-> "", host |-> "", port |-> 0]

\* no call of _resolve_path_params made yet
NoExtraction == [path_template |-> <<>>, actual_path |-> <<>>,
                 params |-> <<>>, called |-> FALSE]

InitRest ==
    /\ tasks = NoTasks
    /\ _spec = "None"
    /\ _endpoint_map = 0
    /\ maps = <<>>
    /\ handed = {}
    /\ answer = NoAnswer
    /\ loaded = FALSE
    /\ reads = 0
    /\ rereads = 0
    /\ builds = 0
    /\ extracted = NoExtraction
    /\ port = 0
    /\ _actual_port = 0
    /\ should_exit = FALSE
    /\ threads = 0
    /\ returned = 0
    /\ base_url = NoUrl
    /\ deleted_posts = {}
    /\ mock_response = 0

Init ==
    /\ self_spec_path \in SpecPaths
    /\ _state = <<>>
    /\ req = NoRequest
    /\ resp = NoResponse
    /\ deleted204 = {}
    /\ seen = <<>>
    /\ revived = {}
    /\ resolved = NotResolved
    /\ _server_thread = "none"
    /\ listening = FALSE
    /\ start_pc = "idle"
    /\ attempt = 0
    /\ accepted = FALSE
    /\ session = [phase |-> "new", test |-> 0]
    /\ heap = <<>>
    /\ instances = <<>>
    /\ self = 0
    /\ since = <<>>
    /\ spec_file = "document"
    /\ raised = ""
    /\ InitRest

\* the id of a request, as a set: empty when the route has no id parameter
IdOf(spec_path, actual_path) ==
    LET path_params == _resolve_path_params(spec_path, actual_path)
    IN IF "id" \in DOMAIN path_params THEN {path_params["id"]} ELSE {}

\* what a handler run leaves behind: the response, the file its body was
\* read from, _state and the ids deleted with a 204
Answer(status, body, file, st, deleted) ==
    /\ resp' = [status |-> status, body |-> body, file |-> file]
    /\ _state' = st
    /\ deleted204' = deleted

\* an exception leaves the handler: the framework answers 500
InternalError == Answer(500, None, <<>>, _state, deleted204)

\* lines 309-317: the default payload did not resolve
NotFound(method, actual_path, path_params, synthetic) ==
    \E error \in {_find_matching_payload(method, actual_path, "404",
                                         path_params)} :
        IF error.payload.kind = "raise" THEN InternalError
        ELSE IF Truthy(error.payload)
        THEN Answer(404, error.payload, error.file, _state, deleted204)
        ELSE Answer(404, synthetic, <<>>, _state, deleted204)

\* lines 274-295: DELETE
HandleDelete(actual_path, path_params) ==
    IF "id" \notin DOMAIN path_params
    THEN Answer(204, None, <<>>, _state, deleted204)
    ELSE
    \E resource_id \in {path_params["id"]} :
    \E found \in {_find_matching_payload("get", actual_path, "200",
                                         path_params)} :
        IF found.payload.kind = "raise" THEN InternalError
        ELSE IF found.payload.kind = "none"
        THEN NotFound("get", actual_path, After(path_params, found),
                      ResourceNotFound)
        ELSE Answer(204, None, <<>>,
                    StateSet(_state, deleted_key(resource_id)),
                    deleted204 \cup {resource_id})

\* lines 297-345: every other method
HandleDefault(method, actual_path, request_body, path_params) ==
    \E default_status \in {IF method = "post" THEN "201" ELSE "200"} :
    \E status_code \in {IF method = "post" THEN 201 ELSE 200} :
    \E found \in {_find_matching_payload(method, actual_path, default_status,
                                         path_params)} :
        IF found.payload.kind = "raise" THEN InternalError
        ELSE IF found.payload.kind = "none"
        THEN NotFound(method, actual_path, After(path_params, found),
                      NoMockPayload(method, actual_path))
        ELSE IF method \in {"post", "put"}
        THEN Answer(status_code,
                    MergeBody(found.payload, request_body,
                              After(path_params, found)),
                    found.file, _state, deleted204)
        ELSE Answer(status_code, found.payload, found.file, _state,
                    deleted204)

\* lines 264-272: a GET on an id marked deleted answers the 404 payload,
\* when one resolves and is truthy
GetDeleted(method, actual_path, request_body, path_params) ==
    \E gone \in {_find_matching_payload(method, actual_path, "404",
                                        path_params)} :
        IF gone.payload.kind = "raise" THEN InternalError
        ELSE IF Truthy(gone.payload)
        THEN Answer(404, gone.payload, gone.file, _state, deleted204)
        ELSE HandleDefault(method, actual_path, request_body,
                           After(path_params, gone))

\* _handle_request of the handler registered for (spec_path, method)
_handle_request(method, spec_path, actual_path, request_body) ==
    \E path_params \in {_resolve_path_params(spec_path, actual_path)} :
        IF /\ method = "get"
           /\ "id" \in DOMAIN path_params
           /\ StateGet(_state, deleted_key(path_params["id"]))
        THEN GetDeleted(method, actual_path, request_body, path_params)
        ELSE IF method = "delete" THEN HandleDelete(actual_path, path_params)
        ELSE HandleDefault(method, actual_path, request_body, path_params)

\* one request served by the handler of its route
Serve(method, actual_path, request_body) ==
    \E route \in {Route(method, actual_path)} :
        /\ route # 0
        /\ \E handler \in {app_routes[route].handler} :
              /\ req' = [method |-> method, path |-> actual_path,
                         body |-> request_body,
                         method_name |-> handler.method_name,
                         spec_path |-> handler.spec_path,
                         was_deleted |->
                            IdOf(handler.spec_path, actual_path)
                                \cap deleted204 # {}]
              /\ _handle_request(handler.method_name, handler.spec_path,
                                 actual_path, request_body)
        /\ UNCHANGED <<self_spec_path, resolved, listener>>

\* the requests issued: GET on every path, DELETE and PUT on the item
\* paths, POST on the collection and on the items 1..MaxId, PATCH on the
\* items 1..MaxId and MissingId
ItemPaths(ids) == {<<Lit("posts"), Num(i)>> : i \in ids}
Requested(method, actual_path) ==
    CASE method = "get" -> TRUE
      [] method \in {"delete", "put"} -> actual_path \in ItemPaths(RequestIds)
      [] method = "post" ->
            actual_path \in {<<Lit("posts")>>} \cup ItemPaths(1..MaxId)
      [] method = "patch" ->
            actual_path \in ItemPaths((1..MaxId) \cup {MissingId})
      [] OTHER -> FALSE

Request ==
    \E method \in Methods, actual_path \in ActualPaths :
        \E shape \in Shapes(method) : \E request_body \in BodiesOf(method, shape) :
            /\ Requested(method, actual_path)
            /\ Serve(method, actual_path, request_body)
            /\ UNCHANGED <<seen, revived, session, process>>

\* a clear that leaves the entries in place
clearNothing(st) == st

\* dict.clear()
clear(st) == <<>>

ClearState ==
    /\ _state' = clear(_state)
    /\ deleted204' = {}
    /\ UNCHANGED <<self_spec_path, req, resp, seen, resolved, listener>>
    /\ UNCHANGED <<session, process>>

\* reset_state(): self._state.clear()
reset_state == ClearState /\ UNCHANGED revived

\* stop(): the listener is told to exit and joined, then
\* self._state.clear().  Requests in flight are not killed, and the server
\* can be started again, so requests may follow.
stop == ClearState /\ UNCHANGED revived

Next == Request \/ reset_state \/ stop

Spec == Init /\ [][Next]_vars

\* ---- the life cycle observed: GET and DELETE on the items 1..MaxId and
\* MissingId, with the first live answer of each path kept in seen
ObservedPaths == ItemPaths((1..MaxId) \cup {MissingId})
Observe ==
    \E method \in {"get", "delete"}, actual_path \in ObservedPaths :
        /\ Serve(method, actual_path, NoBody)
        /\ seen' = IF /\ method = "get"
                      /\ ~req'.was_deleted
                      /\ actual_path \notin DOMAIN seen
                   THEN seen @@ (actual_path :>
                                   [status |-> resp'.status, body |-> resp'.body,
                                    pristine |-> actual_path[2] \notin revived])
                   ELSE seen
        /\ UNCHANGED <<revived, session, process>>

ObservedReset == ClearState /\ revived' = revived \cup deleted204
ObservedStop == ClearState /\ revived' = revived \cup deleted204

NextReset == Observe \/ ObservedReset \/ ObservedStop

SpecReset == Init /\ [][NextReset]_vars

\* ---- the resolver called directly, as the error-path tests do
StatusCodes == {"200", "201", "404"}
Resolve ==
    \E method \in Methods \ {"patch"}, actual_path \in ActualPaths,
       status_code \in StatusCodes :
        \E found \in {_find_matching_payload(method, actual_path, status_code,
                                              <<>>)} :
           /\ resolved' = [method |-> method, path |-> actual_path,
                           status_code |-> status_code,
                           payload |-> found.payload, file |-> found.file]
           /\ UNCHANGED <<self_spec_path, _state, req, resp, deleted204, seen,
                          revived, listener, session, process>>

SpecResolve == Init /\ [][Resolve]_vars

\* ---- start(): the listener thread and the polls of the port
max_attempts == 50
served == <<self_spec_path, _state, req, resp, deleted204, seen, revived,
            resolved, session, process>>

\* lines 362-382: start() returns at once when the thread is alive;
\* otherwise it creates the server and its thread and begins to poll
StartCall ==
    /\ start_pc \in {"idle", "returned", "raised"}
    /\ IF _server_thread = "alive"
       THEN /\ start_pc' = "returned"
            /\ UNCHANGED <<_server_thread, listening, attempt, accepted>>
       ELSE /\ _server_thread' = "alive"
            /\ start_pc' = "polling"
            /\ attempt' = 0
            /\ accepted' = FALSE
            /\ UNCHANGED listening
    /\ UNCHANGED served

\* lines 386-401: one poll of the port; connect_ex answers 0 when something
\* accepts connections there.  After max_attempts polls without a
\* connection start() raises RuntimeError.
Poll ==
    /\ start_pc = "polling"
    /\ IF attempt >= max_attempts
       THEN /\ start_pc' = "raised"
            /\ UNCHANGED <<attempt, accepted>>
       ELSE IF listening
       THEN /\ start_pc' = "returned"
            /\ accepted' = TRUE
            /\ UNCHANGED attempt
       ELSE /\ attempt' = attempt + 1
            /\ UNCHANGED <<start_pc, accepted>>
    /\ UNCHANGED <<_server_thread, listening, served>>

\* the server thread binds the port and listens, at a time of its own
Listen ==
    /\ _server_thread = "alive"
    /\ ~listening
    /\ listening' = TRUE
    /\ UNCHANGED <<_server_thread, start_pc, attempt, accepted, served>>

\* the server thread ends (the port cannot be bound, or the server exits)
ThreadExit ==
    /\ _server_thread = "alive"
    /\ _server_thread' = "dead"
    /\ listening' = FALSE
    /\ UNCHANGED <<start_pc, attempt, accepted, served>>

NextStart == StartCall \/ Poll \/ Listen \/ ThreadExit

\* the caller of start() keeps running: its loop makes its next poll
SpecStart == Init /\ [][NextStart]_vars /\ WF_vars(Poll)

\* ---- a test session on posts_mock_server_session (fixtures.py): the
\* fixture builds and starts the server once, hands the same object to
\* every test that asks for it, and stops it when the session ends
MaxTests == 2

\* lines 47-53: the server is built and started; the fixture yields
SessionSetup ==
    /\ session.phase = "new"
    /\ session' = [phase |-> "between", test |-> 0]
    /\ UNCHANGED <<self_spec_path, _state, req, resp, deleted204, seen,
                   revived, resolved, listener, process>>

\* a test receives the fixture's value: a session-scoped fixture runs no
\* code of its own between two tests
BeginTest ==
    /\ session.phase = "between"
    /\ session.test < MaxTests
    /\ session' = [phase |-> "start", test |-> session.test + 1]
    /\ UNCHANGED <<self_spec_path, _state, req, resp, deleted204, seen,
                   revived, resolved, listener, process>>

\* the test issues a request: GET or DELETE on one of the observed items
TestRequest ==
    /\ session.phase \in {"start", "running"}
    /\ \E method \in {"get", "delete"}, actual_path \in ObservedPaths :
          Serve(method, actual_path, NoBody)
    /\ session' = [session EXCEPT !.phase = "running"]
    /\ UNCHANGED <<seen, revived, process>>

EndTest ==
    /\ session.phase \in {"start", "running"}
    /\ session' = [session EXCEPT !.phase = "between"]
    /\ UNCHANGED <<self_spec_path, _state, req, resp, deleted204, seen,
                   revived, resolved, listener, process>>

\* lines 55-56: at the end of the session the fixture calls stop()
SessionTeardown ==
    /\ session.phase = "between"
    /\ _state' = clear(_state)
    /\ deleted204' = {}
    /\ session' = [session EXCEPT !.phase = "done"]
    /\ UNCHANGED <<self_spec_path, req, resp, seen, revived, resolved,
                   listener, process>>

NextSession ==
    SessionSetup \/ BeginTest \/ TestRequest \/ EndTest \/ SessionTeardown

SpecSession == Init /\ [][NextSession]_vars

\* ---- several MockAPIServer instances in one process
MaxInstances == 2

\* one dict for every instance, whoever builds it
SharedDict(objects) == 1

\* line 50, "self._state = {}": the dict display makes a new object
NewDict(objects) == Cardinality(objects) + 1

\* MockAPIServer(...): __init__ gives the instance its own _state
Construct ==
    /\ Len(instances) < MaxInstances
    /\ \E object \in {NewDict(DOMAIN heap)} :
          /\ instances' = Append(instances, [_state |-> object])
          /\ heap' = (object :> <<>>) @@ heap
          /\ since' = Append(since, 0)
    /\ UNCHANGED <<self_spec_path, _state, req, resp, deleted204, seen,
                   revived, resolved, listener, session, self, construction,
                   rest>>

\* a method of instance i is called: self is bound to i
Bind(i) ==
    /\ i \in 1..Len(instances)
    /\ i # self
    /\ self' = i
    /\ _state' = heap[instances[i]._state]
    /\ UNCHANGED <<self_spec_path, req, resp, deleted204, seen, revived,
                   resolved, listener, session, heap, instances, since,
                   construction, rest>>
Call == \E i \in 1..MaxInstances : Bind(i)

\* self serves a GET or a DELETE on the item the instances are tried on
SharedItem == <<Lit("posts"), Num(1)>>
SelfRequest ==
    /\ self # 0
    /\ \E method \in {"get", "delete"} :
          /\ Serve(method, SharedItem, NoBody)
          /\ since' = [since EXCEPT ![self] =
                          IF method = "get" THEN resp'.status ELSE 0]
    /\ heap' = [heap EXCEPT ![instances[self]._state] = _state']
    /\ UNCHANGED <<seen, revived, session, instances, self, construction,
                   rest>>

\* self.reset_state() or self.stop()
SelfClear ==
    /\ self # 0
    /\ _state' = clear(_state)
    /\ deleted204' = {}
    /\ heap' = [heap EXCEPT ![instances[self]._state] = _state']
    /\ since' = [since EXCEPT ![self] = 0]
    /\ UNCHANGED <<self_spec_path, req, resp, seen, revived, resolved,
                   listener, session, instances, self, construction, rest>>

NextInstances == Construct \/ Call \/ SelfRequest \/ SelfClear

SpecInstances == Init /\ [][NextInstances]_vars

\* ---- construction from the file at spec_path
\* the file at spec_path: absent, not YAML, empty (safe_load gives None),
\* or the document of self_spec_path
SpecFiles == {"missing", "unparsable", "empty", "document"}

\* a loader that answers an empty document whatever is on disk
_load_specLenient(file) == ""

\* _load_spec, lines 27-30: open() raises on an absent file, safe_load on
\* text that is not YAML; nothing in between catches
_load_spec(file) ==
    CASE file = "missing" -> "FileNotFoundError"
      [] file = "unparsable" -> "YAMLError"
      [] OTHER -> ""

\* _build_routes, line 211: spec.get on the None of an empty file
SpecGet(file) == IF file = "empty" THEN "AttributeError" ELSE ""

\* MockAPIServer(api_name, spec_path): lines 41-50 assign the fields, line
\* 53 loads the spec and builds the routes; an exception leaves __init__
\* and no object is bound
__init__ ==
    /\ Len(instances) < MaxInstances
    /\ \E exception \in {_load_spec(spec_file)} :
          IF exception # ""
          THEN /\ raised' = exception
               /\ UNCHANGED <<heap, instances, since>>
          ELSE \E attribute \in {SpecGet(spec_file)} :
                  IF attribute # ""
                  THEN /\ raised' = attribute
                       /\ UNCHANGED <<heap, instances, since>>
                  ELSE /\ raised' = ""
                       /\ \E object \in {NewDict(DOMAIN heap)} :
                             /\ instances' = Append(instances, [_state |-> object])
                             /\ heap' = (object :> <<>>) @@ heap
                             /\ since' = Append(since, 0)
    /\ UNCHANGED <<self_spec_path, _state, req, resp, deleted204, seen,
                   revived, resolved, listener, session, self, spec_file,
                   rest>>

\* server.start() on the instance the fixture built
SelfStart ==
    /\ self = 1
    /\ StartCall

InitConstruct ==
    /\ self_spec_path \in SpecPaths
    /\ _state = <<>>
    /\ req = NoRequest
    /\ resp = NoResponse
    /\ deleted204 = {}
    /\ seen = <<>>
    /\ revived = {}
    /\ resolved = NotResolved
    /\ _server_thread = "none"
    /\ listening = FALSE
    /\ start_pc = "idle"
    /\ attempt = 0
    /\ accepted = FALSE
    /\ session = [phase |-> "new", test |-> 0]
    /\ heap = <<>>
    /\ instances = <<>>
    /\ self = 0
    /\ since = <<>>
    /\ spec_file \in SpecFiles
    /\ raised = ""
    /\ InitRest

NextConstruct == __init__ \/ Call \/ SelfStart \/ Poll \/ Listen \/ ThreadExit

SpecConstruct == InitConstruct /\ [][NextConstruct]_vars

\* ---- requests in flight together on one server.  The handlers are
\* coroutines of one event loop; reset_state() and stop() are called from
\* the thread of the test.  A DELETE is taken in two steps, its look-up
\* (line 280) and its write (line 291), so that every interleaving the
\* loop and the threads can produce is among the behaviours.
TaskPaths == ItemPaths({1, MissingId})

\* a request arrives and its handler is scheduled
Arrive(i) ==
    /\ tasks[i].pc = "idle"
    /\ \E method \in {"get", "delete"}, actual_path \in TaskPaths :
          tasks' = [tasks EXCEPT ![i] = [method |-> method,
                                         path |-> actual_path, pc |-> "start"]]
    /\ UNCHANGED <<self_spec_path, _state, req, resp, deleted204, seen,
                   revived, resolved, listener, session, heap, instances,
                   self, since, construction, loader,
                   aside>>

\* the handler of a GET runs: lines 264-345 without a suspension
Read(i) ==
    /\ tasks[i].pc = "start"
    /\ tasks[i].method = "get"
    /\ Serve("get", tasks[i].path, NoBody)
    /\ tasks' = [tasks EXCEPT ![i] = Idle]
    /\ UNCHANGED <<seen, revived, session, heap, instances, self, since,
                   construction, loader,
                   aside>>

\* the request of the handler in slot i, as Serve records it
TaskRequest(i, spec_path) ==
    [method |-> tasks[i].method, path |-> tasks[i].path, body |-> NoBody,
     method_name |-> tasks[i].method, spec_path |-> spec_path,
     was_deleted |-> IdOf(spec_path, tasks[i].path) \cap deleted204 # {}]

\* the handler of a DELETE up to its write: lines 276-289
Check(i) ==
    /\ tasks[i].pc = "start"
    /\ tasks[i].method = "delete"
    /\ \E route \in {Route("delete", tasks[i].path)} :
       \E spec_path \in {app_routes[route].handler.spec_path} :
       \E path_params \in {_resolve_path_params(spec_path, tasks[i].path)} :
       \E found \in {_find_matching_payload("get", tasks[i].path, "200",
                                            path_params)} :
          IF found.payload.kind = "raise"
          THEN /\ InternalError
               /\ req' = TaskRequest(i, spec_path)
               /\ tasks' = [tasks EXCEPT ![i] = Idle]
          ELSE IF found.payload.kind = "none"
          THEN /\ NotFound("get", tasks[i].path, After(path_params, found),
                           ResourceNotFound)
               /\ req' = TaskRequest(i, spec_path)
               /\ tasks' = [tasks EXCEPT ![i] = Idle]
          ELSE /\ tasks' = [tasks EXCEPT ![i].pc = "marking"]
               /\ UNCHANGED <<_state, req, resp, deleted204>>
    /\ UNCHANGED <<self_spec_path, seen, revived, resolved, listener, session,
                   heap, instances, self, since, construction, loader,
                   aside>>

\* a write that takes the flag away when it is there
MarkToggles(i) ==
    /\ tasks[i].pc = "marking"
    /\ \E spec_path \in {app_routes[Route("delete", tasks[i].path)].handler.spec_path} :
       \E resource_id \in IdOf(spec_path, tasks[i].path) :
          /\ Answer(204, None, <<>>,
                    IF deleted_key(resource_id) \in DOMAIN _state
                    THEN [k \in DOMAIN _state \ {deleted_key(resource_id)} |-> TRUE]
                    ELSE StateSet(_state, deleted_key(resource_id)),
                    deleted204 \cup {resource_id})
          /\ req' = TaskRequest(i, spec_path)
    /\ tasks' = [tasks EXCEPT ![i] = Idle]
    /\ UNCHANGED <<self_spec_path, seen, revived, resolved, listener, session,
                   heap, instances, self, since, construction, loader,
                   aside>>

\* the write of a DELETE and its answer: lines 291-292
Mark(i) ==
    /\ tasks[i].pc = "marking"
    /\ \E spec_path \in {app_routes[Route("delete", tasks[i].path)].handler.spec_path} :
       \E resource_id \in IdOf(spec_path, tasks[i].path) :
          /\ Answer(204, None, <<>>,
                    StateSet(_state, deleted_key(resource_id)),
                    deleted204 \cup {resource_id})
          /\ req' = TaskRequest(i, spec_path)
    /\ tasks' = [tasks EXCEPT ![i] = Idle]
    /\ UNCHANGED <<self_spec_path, seen, revived, resolved, listener, session,
                   heap, instances, self, since, construction, loader,
                   aside>>

\* reset_state() or stop() in the thread of the test, whatever is in flight
TaskClear ==
    /\ _state # <<>>
    /\ _state' = clear(_state)
    /\ deleted204' = {}
    /\ UNCHANGED <<self_spec_path, req, resp, seen, revived, resolved,
                   listener, session, process>>

Run(i) == Arrive(i) \/ Read(i) \/ Check(i) \/ Mark(i)
NextConcurrent == (\E i \in 1..MaxTasks : Run(i)) \/ TaskClear

SpecConcurrent == Init /\ [][NextConcurrent]_vars

\* ---- one spec loader (nasa/spec_loader.py) and its callers
MaxReads == 2
MaxCopies == 1

\* str.upper() on the method names in use
Upper(method) ==
    CASE method = "get" -> "GET"
      [] method = "post" -> "POST"
      [] method = "put" -> "PUT"
      [] method = "delete" -> "DELETE"
      [] method = "patch" -> "PATCH"
      [] OTHER -> method

\* f"{method.upper()} {path} {status_code}"
EndpointKey(method, path, status_code) == <<Upper(method), path, status_code>>

\* str(self.spec_dir / mock_payload), and Path(...) of it
PayloadPath(dir, name) == [dir |-> dir, name |-> name]

\* lines 45-59: the entries of the endpoint map of a document
Entries(document, dir) ==
    UNION {UNION {{[key |-> EndpointKey(m, document.paths[i].template, st),
                    value |-> PayloadPath(dir, document.paths[i].ops[m][st])] :
                      st \in DOMAIN document.paths[i].ops[m]} :
                  m \in DOMAIN document.paths[i].ops \cap Methods} :
           i \in 1..Len(document.paths)}
BuildMap(document, dir) ==
    [k \in {e.key : e \in Entries(document, dir)} |->
        (CHOOSE e \in Entries(document, dir) : e.key = k).value]
EndpointMaps ==
    Table([p \in SpecPaths |-> BuildMap(SpecDocuments[p], p.dir)], SpecPaths)

\* _load_spec(), lines 27-30, from the state at hand: the exception it
\* ends with, and the fields as it leaves them.  "if self._spec is None"
\* reads the file; an exception leaves before the assignment.
LoadSpec ==
    IF _spec # "None"
    THEN [raised |-> "", _spec |-> _spec, loaded |-> TRUE, reads |-> reads,
          rereads |-> rereads]
    ELSE [raised |-> _load_spec(spec_file),
          _spec |-> IF spec_file = "document" THEN "document" ELSE "None",
          loaded |-> loaded \/ _load_spec(spec_file) = "",
          reads |-> reads + 1,
          rereads |-> IF loaded THEN rereads + 1 ELSE rereads]

\* dict.copy() makes a new object; the alias hands the object itself out
Alias(object, objects) == object
copy(object, objects) == Cardinality(objects) + 1

\* the loader's fields after a call
Loaded(load) ==
    /\ _spec' = load._spec
    /\ loaded' = load.loaded
    /\ reads' = load.reads
    /\ rereads' = load.rereads

\* what the calls leave alone
LoaderFrame ==
    UNCHANGED <<self_spec_path, _state, req, resp, deleted204, seen, revived,
                resolved, listener, session, heap, instances, self, since,
                construction, eventloop, aside>>

\* a call may read the file: the reads are counted up to MaxReads
MayRead == reads < MaxReads

\* spec_loader._load_spec(), as server.py calls it
CallLoadSpec ==
    /\ MayRead
    /\ \E load \in {LoadSpec} :
          /\ Loaded(load)
          /\ answer' = [NoAnswer EXCEPT !.call = "_load_spec",
                                        !.raised = load.raised]
    /\ UNCHANGED <<_endpoint_map, maps, handed, builds>>
    /\ LoaderFrame

\* _build_endpoint_map(), lines 39-72, from the state at hand: the cached
\* map when there is one, else a new dict built from the document that
\* _load_spec() returns (spec.get raises on the None of an empty file; an
\* exception leaves before line 71 caches the map)
_build_endpoint_map ==
    IF _endpoint_map # 0
    THEN [raised |-> "",
          load |-> [raised |-> "", _spec |-> _spec, loaded |-> loaded,
                    reads |-> reads, rereads |-> rereads],
          _endpoint_map |-> _endpoint_map, maps |-> maps, builds |-> builds]
    ELSE IF LoadSpec.raised # "" \/ SpecGet(spec_file) # ""
    THEN [raised |-> IF LoadSpec.raised # "" THEN LoadSpec.raised
                     ELSE SpecGet(spec_file),
          load |-> LoadSpec,
          _endpoint_map |-> 0, maps |-> maps, builds |-> builds]
    ELSE [raised |-> "",
          load |-> LoadSpec,
          _endpoint_map |-> NewDict(DOMAIN maps),
          maps |-> (NewDict(DOMAIN maps) :> EndpointMaps[self_spec_path])
                      @@ maps,
          builds |-> builds + 1]

\* the loader's fields after a call that went through _build_endpoint_map()
Built(built) ==
    /\ Loaded(built.load)
    /\ _endpoint_map' = built._endpoint_map
    /\ builds' = built.builds

\* the arguments the callers pass
LoaderMethods == {"get", "GET"}
LoaderPaths == {<<Lit("posts")>>}
LoaderStatus == {"200", "404"}

\* a caller holds a mapping that differs from the loader's
Mutated ==
    \E h \in handed : _endpoint_map # 0 /\ maps[h] # maps[_endpoint_map]

\* endpoint_map.get(key), then "if payload_path: return Path(payload_path)"
Get(endpoint_map, key) ==
    IF key \in DOMAIN endpoint_map THEN endpoint_map[key] ELSE NoPath

\* lines 86-92 and 105-111: the look-up of a key
LookUp(call, key) ==
    \E built \in {_build_endpoint_map} :
        /\ Built(built)
        /\ maps' = built.maps
        /\ answer' = [call |-> call, key |-> key,
                      result |-> IF built.raised # "" THEN NoPath
                                 ELSE Get(built.maps[built._endpoint_map], key),
                      listed |-> <<>>, raised |-> built.raised,
                      mutated |-> Mutated]
        /\ UNCHANGED handed

\* get_payload_path(method, path, status_code)
get_payload_path ==
    /\ MayRead
    /\ \E method \in LoaderMethods, path \in LoaderPaths,
          status_code \in LoaderStatus :
          LookUp("get_payload_path", EndpointKey(method, path, status_code))
    /\ LoaderFrame

\* get_request_payload_path(method, path)
get_request_payload_path ==
    /\ MayRead
    /\ \E method \in LoaderMethods, path \in LoaderPaths :
          LookUp("get_request_payload_path",
                 EndpointKey(method, path, "request"))
    /\ LoaderFrame

\* list_endpoints(), line 120: the copy of the map goes to the caller, who
\* keeps it (up to MaxCopies mappings are kept)
list_endpoints ==
    /\ MayRead
    /\ \E built \in {_build_endpoint_map} :
          /\ Built(built)
          /\ IF built.raised # ""
             THEN /\ maps' = built.maps
                  /\ answer' = [NoAnswer EXCEPT !.call = "list_endpoints",
                                                !.raised = built.raised]
                  /\ UNCHANGED handed
             ELSE \E object \in {copy(built._endpoint_map, DOMAIN built.maps)} :
                  \E content \in {built.maps[built._endpoint_map]} :
                     /\ answer' = [NoAnswer EXCEPT !.call = "list_endpoints",
                                                   !.listed = content,
                                                   !.mutated = Mutated]
                     /\ IF Cardinality(handed) < MaxCopies
                        THEN /\ maps' = (object :> content) @@ built.maps
                             /\ handed' = handed \cup {object}
                        ELSE /\ maps' = built.maps
                             /\ UNCHANGED handed
    /\ LoaderFrame

\* what a caller does to a mapping it holds: remove an entry, change an
\* entry, add an entry
ListKey == EndpointKey("get", <<Lit("posts")>>, "200")
ForeignKey == EndpointKey("get", <<Lit("other")>>, "200")
ForeignPath == PayloadPath("other", <<Lit("other")>>)
Changes == {"pop", "set", "add"}
Change(endpoint_map, change) ==
    CASE change = "pop" ->
            [k \in DOMAIN endpoint_map \ {ListKey} |-> endpoint_map[k]]
      [] change = "set" ->
            [k \in DOMAIN endpoint_map |->
                IF k = ListKey THEN ForeignPath ELSE endpoint_map[k]]
      [] change = "add" ->
            [k \in DOMAIN endpoint_map \cup {ForeignKey} |->
                IF k = ForeignKey THEN ForeignPath ELSE endpoint_map[k]]
Mutate ==
    /\ \E h \in handed, change \in Changes :
          /\ Change(maps[h], change) # maps[h]
          /\ maps' = [maps EXCEPT ![h] = Change(maps[h], change)]
    /\ UNCHANGED <<_spec, _endpoint_map, handed, answer, loaded, reads,
                   rereads, builds>>
    /\ LoaderFrame

InitLoader ==
    /\ self_spec_path \in SpecPaths
    /\ _state = <<>>
    /\ req = NoRequest
    /\ resp = NoResponse
    /\ deleted204 = {}
    /\ seen = <<>>
    /\ revived = {}
    /\ resolved = NotResolved
    /\ _server_thread = "none"
    /\ listening = FALSE
    /\ start_pc = "idle"
    /\ attempt = 0
    /\ accepted = FALSE
    /\ session = [phase |-> "new", test |-> 0]
    /\ heap = <<>>
    /\ instances = <<>>
    /\ self = 0
    /\ since = <<>>
    /\ spec_file \in SpecFiles
    /\ raised = ""
    /\ InitRest

NextLoader ==
    \/ CallLoadSpec
    \/ get_payload_path
    \/ get_request_payload_path
    \/ list_endpoints
    \/ Mutate

SpecLoader == InitLoader /\ [][NextLoader]_vars

\* ---- _resolve_path_params on strings: a string is the sequence of its
\* characters, a template the segments of SegmentStrings joined by "/" and
\* an actual path the segments of ActualStrings joined by "/"
MaxParts == 3

SegmentStrings ==
    {<<>>, <<"a">>, <<"{", "a", "}">>, <<"{", "b", "}">>, <<"{", "}">>,
     <<"{">>}
ActualStrings == {<<>>, <<"a">>, <<"1">>}

\* "/".join(parts)
RECURSIVE Join(_)
Join(parts) ==
    IF Len(parts) = 1 THEN parts[1]
    ELSE parts[1] \o <<"/">> \o Join(Tail(parts))

\* str.split("/")
RECURSIVE split(_)
split(string) ==
    IF \A i \in 1..Len(string) : string[i] # "/" THEN <<string>>
    ELSE LET i == CHOOSE j \in 1..Len(string) :
                     /\ string[j] = "/"
                     /\ \A k \in 1..(j - 1) : string[k] # "/"
         IN <<SubSeq(string, 1, i - 1)>>
               \o split(SubSeq(string, i + 1, Len(string)))

\* str.startswith and str.endswith of one character, and part[1:-1]
startswith(string, c) == Len(string) >= 1 /\ string[1] = c
endswith(string, c) == Len(string) >= 1 /\ string[Len(string)] = c
Inner(string) == SubSeq(string, 2, Len(string) - 1)

\* lines 77-81: the loop over zip(template_parts, actual_parts); zip stops
\* at the shorter list, and a later assignment to a key replaces an
\* earlier one
RECURSIVE ZipParams(_, _, _)
ZipParams(params, template_parts, actual_parts) ==
    IF template_parts = <<>> \/ actual_parts = <<>> THEN params
    ELSE ZipParams(IF /\ startswith(Head(template_parts), "{")
                      /\ endswith(Head(template_parts), "}")
                   THEN (Inner(Head(template_parts)) :> Head(actual_parts))
                           @@ params
                   ELSE params,
                   Tail(template_parts), Tail(actual_parts))

\* lines 71-83
ResolveUnchecked(path_template, actual_path) ==
    ZipParams(<<>>, split(path_template), split(actual_path))
ResolvePathParams(path_template, actual_path) ==
    IF Len(split(path_template)) # Len(split(actual_path)) THEN <<>>
    ELSE ZipParams(<<>>, split(path_template), split(actual_path))

\* the paths of 1..MaxParts segments
Paths(segments) ==
    {Join(parts) : parts \in UNION {[1..n -> segments] : n \in 1..MaxParts}}
PathStrings == Paths(ActualStrings)

\* the "{...}" segments of a template, by position
ParamPositions(path_template) ==
    {i \in 1..Len(split(path_template)) :
        /\ startswith(split(path_template)[i], "{")
        /\ endswith(split(path_template)[i], "}")}

\* the templates a server can hold: a route whose template names one
\* parameter twice cannot be registered (line 237, add_api_route)
TemplateStrings ==
    {t \in Paths(SegmentStrings) :
        \A i, j \in ParamPositions(t) :
            split(t)[i] = split(t)[j] => i = j}

Extract ==
    /\ ~extracted.called
    /\ extracted' =
          [extracted EXCEPT
              !.params = ResolvePathParams(extracted.path_template,
                                           extracted.actual_path),
              !.called = TRUE]
    /\ UNCHANGED <<self_spec_path, _state, req, resp, deleted204, seen,
                   revived, resolved, listener, session, heap, instances,
                   self, since, construction, eventloop, loader, lifecycle,
                   codemock>>

InitParams ==
    /\ self_spec_path = CHOOSE p \in SpecPaths : TRUE
    /\ _state = <<>>
    /\ req = NoRequest
    /\ resp = NoResponse
    /\ deleted204 = {}
    /\ seen = <<>>
    /\ revived = {}
    /\ resolved = NotResolved
    /\ _server_thread = "none"
    /\ listening = FALSE
    /\ start_pc = "idle"
    /\ attempt = 0
    /\ accepted = FALSE
    /\ session = [phase |-> "new", test |-> 0]
    /\ heap = <<>>
    /\ instances = <<>>
    /\ self = 0
    /\ since = <<>>
    /\ spec_file = "document"
    /\ raised = ""
    /\ tasks = NoTasks
    /\ _spec = "None"
    /\ _endpoint_map = 0
    /\ maps = <<>>
    /\ handed = {}
    /\ answer = NoAnswer
    /\ loaded = FALSE
    /\ reads = 0
    /\ rereads = 0
    /\ builds = 0
    /\ \E path_template \in TemplateStrings, actual_path \in PathStrings :
          extracted = [path_template |-> path_template,
                       actual_path |-> actual_path,
                       params |-> <<>>, called |-> FALSE]
    /\ port = 0
    /\ _actual_port = 0
    /\ should_exit = FALSE
    /\ threads = 0
    /\ returned = 0
    /\ base_url = NoUrl
    /\ deleted_posts = {}
    /\ mock_response = 0

SpecParams == InitParams /\ [][Extract]_vars

\* ---- the code-level mock of the CRUD tests (test_posts_crud.py) next to
\* the server: both get the same requests, on the same payload directory

\* glob("GET_posts_*_200.json") on the payload directory
GenericFiles ==
    {name \in DOMAIN fs :
        /\ Len(name) = 5
        /\ name[1] = Lit("GET")
        /\ name[2] = Lit("_posts_")
        /\ name[4] = Lit("_")
        /\ name[5] = Num(200)}

\* what a loaded file gives get_post_by_id: a dict is returned (an empty
\* one is falsy to the caller), json.load raises on a file that is not
\* JSON, and payload["id"] = post_id raises on anything but a dict
Loads(file, generic) ==
    CASE fs[file].kind = "invalid" -> "raise"
      [] fs[file].kind = "dict" ->
            IF DOMAIN fs[file].d = {} /\ ~generic THEN "none" ELSE "data"
      [] OTHER -> IF generic THEN "raise" ELSE "data"

\* PostsMock.get_post_by_id (posts/mock.py, lines 94-113): the outcomes
\* it can have; the file that glob lists first is any of the matches
get_post_by_id(post_id) ==
    IF Exists(NameItem("GET", Num(post_id), 200))
    THEN {Loads(NameItem("GET", Num(post_id), 200), FALSE)}
    ELSE IF post_id > 100 THEN {"none"}
    ELSE IF GenericFiles # {}
    THEN {Loads(file, TRUE) : file \in GenericFiles}
    ELSE {"none"}

\* the status of mock_get, mock_put and mock_delete on /posts/<post_id>;
\* -1 stands for an exception that leaves the mock
MockStatus(method, post_id, existing_post) ==
    IF post_id \in deleted_posts THEN 404
    ELSE IF existing_post = "raise" THEN -1
    ELSE IF existing_post = "none" THEN 404
    ELSE IF method = "delete" THEN 204
    ELSE 200

\* mock_delete, line 217: deleted_posts.add(post_id)
MockDeleted(method, post_id, existing_post) ==
    IF /\ method = "delete"
       /\ post_id \notin deleted_posts
       /\ existing_post = "data"
    THEN deleted_posts \cup {post_id}
    ELSE deleted_posts

\* one request, sent to the server and to the code-level mock
Both ==
    \E method \in {"get", "put", "delete"}, post_id \in RequestIds :
        \E request_body \in BodiesOf(method, "object") :
        \E existing_post \in get_post_by_id(post_id) :
            /\ Serve(method, <<Lit("posts"), Num(post_id)>>, request_body)
            /\ mock_response' = MockStatus(method, post_id, existing_post)
            /\ deleted_posts' = MockDeleted(method, post_id, existing_post)
            /\ UNCHANGED <<seen, revived, session, heap, instances, self,
                           since, construction, eventloop, loader, extraction,
                           lifecycle>>

\* a new test: the fixture of the code-level mock starts with an empty set
\* (line 30), the server fixture resets the server's state
NewTest ==
    /\ ClearState
    /\ deleted_posts' = {}
    /\ UNCHANGED <<revived, mock_response>>

NextMock == Both \/ NewTest

SpecMock == Init /\ [][NextMock]_vars

\* ---- the life cycle of one server: start(), stop() and get_base_url()
\* with the ports, the uvicorn server's should_exit flag and its thread
MaxThreads == 2

\* the port given to the constructor when it is not 0, and the ports
\* _find_free_port() can return
GivenPort == 8000
FreePorts == {49152, 49153}

\* the posts API as shipped: dedicated files, a dedicated 404 payload
ShippedPath ==
    [style |-> "specific", nf |-> "specific", layout |-> "latest-item",
     dir |-> "plain"]

\* "self._actual_port or self.port"
ActualOrPort == IF _actual_port # 0 THEN _actual_port ELSE port

\* what the steps of start() leave alone
StartFrame ==
    UNCHANGED <<self_spec_path, _state, req, resp, deleted204, seen, revived,
                resolved, session, heap, instances, self, since, construction,
                eventloop, loader, extraction, codemock>>

\* start() is called
CallStart ==
    /\ start_pc \in {"idle", "returned", "raised"}
    /\ start_pc' = "called"
    /\ UNCHANGED <<_server_thread, listening, attempt, accepted, lifecycle>>
    /\ StartFrame

\* lines 362-382 with every thread alive taken for dead: a new server and
\* a new thread on every call
startAlways ==
    /\ start_pc = "called"
    /\ threads < MaxThreads
    /\ \E free \in FreePorts :
          /\ port' = IF port = 0 THEN free ELSE port
          /\ _actual_port' = IF port = 0 THEN free ELSE _actual_port
    /\ should_exit' = FALSE
    /\ _server_thread' = "alive"
    /\ listening' = FALSE
    /\ threads' = threads + 1
    /\ start_pc' = "polling"
    /\ attempt' = 0
    /\ accepted' = FALSE
    /\ returned' = 0
    /\ UNCHANGED base_url
    /\ StartFrame

\* lines 362-382: with a live thread start() returns
\* "self._actual_port or self.port" at once; otherwise it finds a port
\* when self.port is 0, makes a new uvicorn server (should_exit False) and
\* a new thread, and goes on to poll
start ==
    /\ start_pc = "called"
    /\ IF _server_thread = "alive"
       THEN /\ start_pc' = "returned"
            /\ returned' = ActualOrPort
            /\ UNCHANGED <<_server_thread, listening, attempt, accepted, port,
                           _actual_port, should_exit, threads, base_url>>
       ELSE /\ threads < MaxThreads
            /\ \E free \in FreePorts :
                  /\ port' = IF port = 0 THEN free ELSE port
                  /\ _actual_port' = IF port = 0 THEN free ELSE _actual_port
            /\ should_exit' = FALSE
            /\ _server_thread' = "alive"
            /\ listening' = FALSE
            /\ threads' = threads + 1
            /\ start_pc' = "polling"
            /\ attempt' = 0
            /\ accepted' = FALSE
            /\ returned' = 0
            /\ UNCHANGED base_url
    /\ StartFrame

\* lines 386-401: one poll of self.port; a connection makes start() set
\* _actual_port and return it, max_attempts polls without one make it raise
PollPort ==
    /\ start_pc = "polling"
    /\ IF attempt >= max_attempts
       THEN /\ start_pc' = "raised"
            /\ UNCHANGED <<attempt, accepted, _actual_port, returned>>
       ELSE IF listening
       THEN /\ start_pc' = "returned"
            /\ accepted' = TRUE
            /\ _actual_port' = port
            /\ returned' = port
            /\ UNCHANGED attempt
       ELSE /\ attempt' = attempt + 1
            /\ UNCHANGED <<start_pc, accepted, _actual_port, returned>>
    /\ UNCHANGED <<_server_thread, listening, port, should_exit, threads,
                   base_url>>
    /\ StartFrame

\* the server thread binds the port and listens (uvicorn starts up before
\* it looks at should_exit)
Bound ==
    /\ _server_thread = "alive"
    /\ ~listening
    /\ listening' = TRUE
    /\ UNCHANGED <<_server_thread, start_pc, attempt, accepted, lifecycle>>
    /\ StartFrame

\* the server thread ends: the port cannot be bound, or the server has
\* seen should_exit and shut down
Exits ==
    /\ _server_thread = "alive"
    /\ _server_thread' = "dead"
    /\ listening' = FALSE
    /\ UNCHANGED <<start_pc, attempt, accepted, lifecycle>>
    /\ StartFrame

\* stop(), lines 405-409: should_exit is set on the server at hand, the
\* thread is joined for at most two seconds (it has ended by then, or it
\* has not), and _state is cleared; no start() call is at hand afterwards
StopServer ==
    /\ start_pc # "polling"
    /\ start_pc # "called"
    /\ should_exit' = IF _server_thread # "none" THEN TRUE ELSE should_exit
    /\ \E joined \in BOOLEAN :
          IF _server_thread = "alive" /\ joined
          THEN /\ _server_thread' = "dead"
               /\ listening' = FALSE
          ELSE UNCHANGED <<_server_thread, listening>>
    /\ _state' = clear(_state)
    /\ deleted204' = {}
    /\ start_pc' = "idle"
    /\ UNCHANGED <<attempt, accepted, port, _actual_port, threads, returned,
                   base_url>>
    /\ UNCHANGED <<self_spec_path, req, resp, seen, revived, resolved,
                   session, heap, instances, self, since, construction,
                   eventloop, loader, extraction, codemock>>

\* get_base_url(), lines 418-421: the URL as its host and port, or the
\* RuntimeError
get_base_url ==
    /\ base_url' = IF ActualOrPort = 0
                   THEN [NoUrl EXCEPT !.raised = "RuntimeError"]
                   ELSE [raised |-> "", host |-> "127.0.0.1",
                         port |-> ActualOrPort]
    /\ UNCHANGED <<listener, port, _actual_port, should_exit, threads,
                   returned>>
    /\ StartFrame

\* a client of the listening server deletes or gets item 1
ClientRequest ==
    /\ listening
    /\ \E method \in {"get", "delete"} : Serve(method, SharedItem, NoBody)
    /\ UNCHANGED <<seen, revived, session, process>>

InitLifecycle ==
    /\ self_spec_path = ShippedPath
    /\ _state = <<>>
    /\ req = NoRequest
    /\ resp = NoResponse
    /\ deleted204 = {}
    /\ seen = <<>>
    /\ revived = {}
    /\ resolved = NotResolved
    /\ _server_thread = "none"
    /\ listening = FALSE
    /\ start_pc = "idle"
    /\ attempt = 0
    /\ accepted = FALSE
    /\ session = [phase |-> "new", test |-> 0]
    /\ heap = <<>>
    /\ instances = <<>>
    /\ self = 0
    /\ since = <<>>
    /\ spec_file = "document"
    /\ raised = ""
    /\ tasks = NoTasks
    /\ _spec = "None"
    /\ _endpoint_map = 0
    /\ maps = <<>>
    /\ handed = {}
    /\ answer = NoAnswer
    /\ loaded = FALSE
    /\ reads = 0
    /\ rereads = 0
    /\ builds = 0
    /\ extracted = NoExtraction
    /\ port \in {0, GivenPort}
    /\ _actual_port = 0
    /\ should_exit = FALSE
    /\ threads = 0
    /\ returned = 0
    /\ base_url = NoUrl
    /\ deleted_posts = {}
    /\ mock_response = 0

NextLifecycle ==
    \/ CallStart
    \/ start
    \/ PollPort
    \/ Bound
    \/ Exits
    \/ StopServer
    \/ get_base_url
    \/ ClientRequest

\* the caller of start() keeps running: its loop makes its next poll
SpecLifecycle == InitLifecycle /\ [][NextLifecycle]_vars /\ WF_vars(PollPort)

\* ================================================================ claims

\* the request at hand is on /posts/<number>
OnItem == req.path \in ItemPaths(RequestIds)

\* C1: once a DELETE on an id has answered 204, every later GET on that id
\* answers 404 until reset_state() or stop().
C1_DeletedGetIs404 ==
    (req.method = "get" /\ req.was_deleted) => resp.status = 404

\* C2: a DELETE on an id whose DELETE has already answered 204 since the
\* last reset answers 404 (so at most one DELETE per id answers 204, and
\* none raises).
C2_RepeatedDeleteIs404 ==
    (req.method = "delete" /\ req.was_deleted) => resp.status = 404

\* C3: a PUT on an id deleted since the last reset answers 404, never 200.
C3_PutOnDeletedIs404 ==
    (req.method = "put" /\ req.was_deleted) => resp.status = 404

\* a payload file is dedicated to an id when one of the numbers of its
\* name, the trailing status code aside, is the id
Dedicated(name, id) ==
    LET numbers == FindAllNumbers(name)
    IN \E j \in 1..(Len(numbers) - 1) : numbers[j] = id

\* C4: a GET on /posts/j answers 200 only with the payload of a file
\* dedicated to j, never with the payload of another id or of a generic
\* template.
C4_NoForeignPayload ==
    (req.method = "get" /\ OnItem /\ resp.status = 200)
        => Dedicated(resp.file, req.path[2])

\* what a GET (status 200) resolves to for a path
GetRepresentation(path) ==
    _find_matching_payload("get", path, "200", <<>>).payload

\* C5: a PUT with an object body on an existing id answers 200 with every
\* supplied field at its supplied value and every other field at the value
\* of the id's GET (status 200) representation.
C5_PartialPutOverGet ==
    (/\ req.method = "put"
     /\ req.body.kind = "dict"
     /\ ~req.was_deleted
     /\ GetRepresentation(req.path).kind = "dict")
        => /\ resp.status = 200
           /\ resp.body.kind = "dict"
           /\ \A f \in DOMAIN req.body.d :
                 f \in DOMAIN resp.body.d /\ resp.body.d[f] = req.body.d[f]
           /\ \A f \in DOMAIN GetRepresentation(req.path).d \ DOMAIN req.body.d :
                 /\ f \in DOMAIN resp.body.d
                 /\ resp.body.d[f] = GetRepresentation(req.path).d[f]

\* C6: in a PUT, a field that the body omits or gives as null keeps its
\* prior value (the value in the document the body is merged over; id,
\* which the path sets, aside).
C6_NullKeepsPrior ==
    (/\ req.method = "put"
     /\ req.body.kind = "dict"
     /\ resp.status = 200
     /\ resp.body.kind = "dict"
     /\ fs[resp.file].kind = "dict")
        => \A f \in DOMAIN fs[resp.file].d \ {"id"} :
              (f \notin DOMAIN req.body.d \/ req.body.d[f] = JNull)
                  => /\ f \in DOMAIN resp.body.d
                     /\ resp.body.d[f] = fs[resp.file].d[f]

\* the payload declared for a status of the operation that serves req
DeclaredPayload(status_code) ==
    LET i == CHOOSE j \in 1..Len(spec.paths) :
                 spec.paths[j].template = req.spec_path
    IN fs[spec.paths[i].ops[req.method][status_code]]

\* result is template with the entries of body laid over it
IsMerge(result, template, body) ==
    /\ result.kind = "dict"
    /\ DOMAIN result.d = DOMAIN template \cup DOMAIN body
    /\ \A f \in DOMAIN body : result.d[f] = body[f]
    /\ \A f \in DOMAIN template \ DOMAIN body : result.d[f] = template[f]

\* C7 as stated: a POST with an object body answers 201 with the declared
\* 201 template shallow-merged with the body.
C7_PostMerges ==
    (req.method = "post" /\ req.body.kind = "dict")
        => /\ resp.status = 201
           /\ DeclaredPayload("201").kind = "dict"
           /\ IsMerge(resp.body, DeclaredPayload("201").d, req.body.d)

\* the id the path forces into a merged body, as a dict
PathId ==
    LET ids == IdOf(req.spec_path, req.path)
    IN IF \E i \in ids : IsInt(i)
       THEN Entry("id", JInt(int(CHOOSE i \in ids : TRUE)))
       ELSE <<>>

\* C7 amended: a POST with an object body whose 201 template resolves to an
\* object answers 201 with the template, the body laid over it and, on a
\* path with a numeric id parameter, the id field set to that id; a 201
\* template that is an array is answered unmodified.
C7_PostMergesObjects ==
    (req.method = "post" /\ req.body.kind = "dict")
        => /\ resp.status = 201
           /\ DeclaredPayload("201").kind = "dict"
                 => IsMerge(resp.body, DeclaredPayload("201").d,
                            DictUpdate(req.body.d, PathId))
           /\ DeclaredPayload("201").kind = "list"
                 => resp.body = DeclaredPayload("201")

C7_Witness ==
    /\ req.method = "post"
    /\ req.body.kind = "dict"
    /\ "title" \in DOMAIN req.body.d
    /\ resp.status = 201
    /\ resp.body.kind = "dict"
    /\ resp.body.d["title"] = req.body.d["title"]
    /\ resp.body.d["body"] = DeclaredPayload("201").d["body"]

\* C8: every 201 answer to a POST has an id field that is a positive
\* integer, whatever the body.
C8_PostIdPositive ==
    (req.method = "post" /\ resp.status = 201)
        => /\ resp.body.kind = "dict"
           /\ "id" \in DOMAIN resp.body.d
           /\ resp.body.d["id"].t = "int"
           /\ resp.body.d["id"].n > 0

\* C9: after reset_state() or stop() no id is recorded as deleted, and a GET
\* on an id that was deleted before the call answers as the GET on it did
\* before the DELETE.
C9_ResetRevives ==
    /\ deleted204 = {} => DOMAIN _state = {}
    /\ (/\ req.method = "get"
        /\ OnItem
        /\ req.path[2] \in revived
        /\ ~req.was_deleted
        /\ req.path \in DOMAIN seen)
           => /\ resp.status = seen[req.path].status
              /\ resp.body = seen[req.path].body

C9_Witness ==
    /\ req.method = "get"
    /\ OnItem
    /\ req.path[2] \in revived
    /\ ~req.was_deleted
    /\ req.path \in DOMAIN seen
    /\ seen[req.path].pristine
    /\ seen[req.path].status = 200
    /\ resp.status = 200

\* C10: for every declared (method, path, status) with a payload file,
\* resolving a concrete path of that template (one that binds no id) for
\* that method and status returns the contents of that file, also when
\* another template matches the path.
C10_ResolveReturnsDeclaredFile ==
    resolved.method # "" =>
        \A i \in 1..Len(spec.paths) :
            LET template == spec.paths[i].template
                ops == spec.paths[i].ops
            IN (/\ _path_matches(template, resolved.path)
                /\ "id" \notin DOMAIN _resolve_path_params(template, resolved.path)
                /\ resolved.method \in DOMAIN ops
                /\ resolved.status_code \in DOMAIN ops[resolved.method]
                /\ Exists(ops[resolved.method][resolved.status_code]))
                   => resolved.payload =
                        fs[ops[resolved.method][resolved.status_code]]

\* C11: every answer to a request on a declared route is a response the
\* handler built: no exception leaves the handler (which the framework
\* would answer with status 500), whatever fails.
C11_NoExceptionEscapes == req.method # "" => resp.status # 500

\* the payload the handler of req looks up for a status: under the method
\* of the request, a DELETE under GET (the equivalent GET)
Lookup(status_code) ==
    _find_matching_payload(IF req.method = "delete" THEN "get" ELSE req.method,
                           req.path, status_code,
                           _resolve_path_params(req.spec_path, req.path)).payload
DefaultStatus == IF req.method = "post" THEN "201" ELSE "200"
Resolves(payload) == payload.kind \notin {"none", "raise"}

\* C12: when neither the default-status payload nor a declared 404 payload
\* resolves, the answer is 404 with the synthetic body that names the
\* method and the path of the request; when a declared 404 payload
\* resolves, the body of a 404 answer is that payload.
C12_Synthetic404 ==
    req.method # "" =>
        /\ (~Resolves(Lookup(DefaultStatus)) /\ ~Resolves(Lookup("404")))
              => /\ resp.status = 404
                 /\ resp.body = NoMockPayload(req.method, req.path)
        /\ (resp.status = 404 /\ Resolves(Lookup("404")))
              => resp.body = Lookup("404")

\* C13: a successful answer has the status of its method (GET, PUT and
\* PATCH 200, POST 201, DELETE 204 with no body), and no request is
\* answered with a status outside {200, 201, 204, 404}.
C13_StatusByMethod ==
    req.method # "" =>
        /\ resp.status \in {200, 201, 204, 404}
        /\ resp.status \in {200, 201, 204} =>
              /\ req.method \in {"get", "put", "patch"} => resp.status = 200
              /\ req.method = "post" => resp.status = 201
              /\ req.method = "delete" =>
                    resp.status = 204 /\ resp.body.kind = "none"

\* the (path template, method) pairs that have a handler, and the pairs the
\* document declares (with an operation object, empty or not)
Handlers ==
    {<<app_routes[r].path, app_routes[r].method>> : r \in 1..Len(app_routes)}
DeclaredPairs ==
    UNION {{<<spec.paths[i].template, m>> :
               m \in DOMAIN spec.paths[i].ops \cup spec.paths[i].hollow} :
           i \in 1..Len(spec.paths)}
RegistrablePairs ==
    UNION {{<<spec.paths[i].template, m>> :
               m \in DOMAIN spec.paths[i].ops \cap Methods} :
           i \in 1..Len(spec.paths)}

\* every handler holds the method, the path template and the operation of
\* its own pair, and a request is served by a handler of its own method
\* whose template matches its path
OwnPair ==
    /\ \A r \in 1..Len(app_routes) :
          \E i \in 1..Len(spec.paths) :
             /\ spec.paths[i].template = app_routes[r].path
             /\ app_routes[r].method \in DOMAIN spec.paths[i].ops
             /\ app_routes[r].handler.method_name = app_routes[r].method
             /\ app_routes[r].handler.spec_path = app_routes[r].path
             /\ app_routes[r].handler.operation_def =
                   spec.paths[i].ops[app_routes[r].method]
    /\ req.method # "" =>
          /\ req.method_name = req.method
          /\ _path_matches(req.spec_path, req.path)

\* C14 as stated: after construction the pairs that have a handler are the
\* pairs the document declares, and each handler runs with its own pair.
C14_HandlersAreDeclared == Handlers = DeclaredPairs /\ OwnPair

\* C14 amended: the pairs that have a handler are the declared pairs whose
\* method is one of get, post, put, delete, patch and whose operation
\* object is not empty, and each handler runs with its own pair.
C14_HandlersAreRegistrable == Handlers = RegistrablePairs /\ OwnPair

C14_Witness ==
    /\ req.method = "get"
    /\ req.path = <<Lit("posts")>>
    /\ req.spec_path = <<Lit("posts")>>
    /\ resp.status = 200
    /\ Handlers # DeclaredPairs

\* C15: start() returns the port only after a connection to it has been
\* accepted, makes at most max_attempts polls, and raises only when all of
\* them went without a connection.
C15_StartConfirmsListener ==
    /\ start_pc = "returned" => accepted
    /\ attempt <= max_attempts
    /\ start_pc = "raised" => attempt = max_attempts

\* start() always terminates
C15_StartTerminates == (start_pc = "polling") ~> (start_pc # "polling")

\* C16: with the session-scoped fixture, at the start of every test no id
\* is marked deleted (so no DELETE of an earlier test shows in a later
\* test's GET).
C16_SessionStateReset ==
    session.phase = "start" => (DOMAIN _state = {} /\ deleted204 = {})

\* C17: a DELETE, reset_state() or stop() on one instance leaves the
\* deleted flags of every other instance unchanged, and with them its
\* answers: a GET of an instance answers as its last GET did since the
\* instance's own last DELETE, reset_state() or stop().
C17_InstancesShareNothing ==
    [][/\ \A j \in 1..Len(instances) :
             j # self => heap'[instances[j]._state] = heap[instances[j]._state]
       /\ (/\ self' = self
           /\ self # 0
           /\ <<req, resp>>' # <<req, resp>>
           /\ req'.method = "get"
           /\ since[self] # 0)
              => resp'.status = since[self]]_vars

\* an instance answers 200 on a path on which it answered 200 before,
\* while the other instance holds the id as deleted
C17_Witness ==
    /\ Len(instances) = 2
    /\ self # 0
    /\ req.method = "get"
    /\ resp.status = 200
    /\ heap[instances[self]._state] = <<>>
    /\ \E j \in 1..2 : j # self /\ heap[instances[j]._state] # <<>>

\* C18: constructing a server whose spec file is missing or malformed
\* fails in the constructor: no instance (hence no routes) exists
\* afterwards and start() is never entered.
C18_BrokenSpecNoServer ==
    spec_file # "document" =>
        /\ instances = <<>>
        /\ _server_thread = "none"
        /\ start_pc = "idle"
C18_Witness == spec_file \in {"missing", "unparsable"} /\ raised # ""

\* C19: every 200 answer to a PUT on /posts/{id} has its id field equal to
\* the integer value of the path parameter, whatever the request body is.
C19_PutIdIsPathId ==
    (req.method = "put" /\ OnItem /\ resp.status = 200)
        => /\ resp.body.kind = "dict"
           /\ "id" \in DOMAIN resp.body.d
           /\ resp.body.d["id"] = JInt(req.path[2].n)

\* the payload DELETE looks for: that of the equivalent GET, status 200
EquivalentGet(r) ==
    _find_matching_payload("get", r.path, "200",
                           _resolve_path_params(r.spec_path, r.path)).payload

\* the request served by the step is a DELETE on an id whose equivalent GET
\* does not resolve
DeleteUnresolved(r) ==
    /\ r.method = "delete"
    /\ IdOf(r.spec_path, r.path) # {}
    /\ EquivalentGet(r).kind \notin {"dict", "list"}

\* C20: a DELETE on an id whose equivalent GET (status 200) payload does not
\* resolve answers 404 and leaves the id unmarked; an id is marked deleted
\* only by a DELETE on it that answered 204.
C20_DeleteUnresolved ==
    /\ DeleteUnresolved(req)
          => /\ resp.status = 404
             /\ \A resource_id \in IdOf(req.spec_path, req.path) :
                   deleted_key(resource_id) \notin DOMAIN _state
    /\ \A key \in DOMAIN _state :
          \E resource_id \in deleted204 : key = deleted_key(resource_id)

\* C21: a POST or PUT whose body is absent or is not a JSON object is
\* answered with the resolved template payload unmodified and the default
\* success status of the method, never with an error the body caused.
C21_BadBodyServesTemplate ==
    (/\ req.method \in {"post", "put"}
     /\ req.body.kind # "dict"
     /\ Resolves(Lookup(DefaultStatus)))
        => /\ resp.status = (IF req.method = "post" THEN 201 ELSE 200)
           /\ resp.body = Lookup(DefaultStatus)

\* the resolver returned a file for a path with an id, and not by the exact
\* match: the name it formats to is no file that loads
ViaFallback ==
    /\ resolved.method # ""
    /\ Len(resolved.path) = 2
    /\ resolved.file # <<>>
    /\ LET formatted == Format(resolved.file, Entry("id", resolved.path[2]))
       IN ~(/\ formatted.ok
            /\ Exists(formatted.name)
            /\ _load_json_file(formatted.name).kind # "raise")

\* C22: in the filename fallback the trailing status-code number of the
\* file name is never taken for an id: the file is used only when one of
\* its other numbers equals the requested id.
C22_StatusNumberIsNoId ==
    ViaFallback =>
        \E j \in 1..(Len(FindAllNumbers(resolved.file)) - 1) :
            FindAllNumbers(resolved.file)[j] = resolved.path[2]

\* C23: _state changes only in a step that serves a DELETE with 204, which
\* adds the flag of the id of that request and nothing else, or in a
\* reset_state()/stop(), which empties it; GET, POST, PUT, PATCH and every
\* DELETE answered 404 leave it as it is.
C23_StateFrame ==
    [][_state' # _state =>
          \/ /\ req'.method = "delete"
             /\ resp'.status = 204
             /\ \E resource_id \in IdOf(req'.spec_path, req'.path) :
                   /\ deleted_key(resource_id) \notin DOMAIN _state
                   /\ DOMAIN _state' =
                         DOMAIN _state \cup {deleted_key(resource_id)}
                   /\ \A key \in DOMAIN _state' : _state'[key]
          \/ /\ _state' = <<>>
             /\ req' = req
             /\ resp' = resp]_vars
C23_Witness ==
    /\ Cardinality(DOMAIN _state) = 2
    /\ req.method \in {"post", "put", "patch"}
    /\ resp.status \in {200, 201}

\* C24: under every interleaving of the requests in flight a flag that is
\* set stays set in every step but those of reset_state()/stop(), and the
\* write of a DELETE leaves the flag of its id set, also when another
\* DELETE of the same id is in flight or has written before.
C24_FlagsStaySet ==
    [][tasks' # tasks =>
          /\ \A key \in DOMAIN _state : key \in DOMAIN _state' /\ _state'[key]
          /\ \A i \in 1..MaxTasks :
                (tasks[i].pc = "marking" /\ tasks'[i].pc = "idle")
                   => \A resource_id \in IdOf(req'.spec_path, tasks[i].path) :
                         /\ deleted_key(resource_id) \in DOMAIN _state'
                         /\ _state'[deleted_key(resource_id)]]_vars
C24_Witness ==
    /\ req.method = "delete"
    /\ resp.status = 204
    /\ \E i \in 1..MaxTasks :
          /\ tasks[i].pc = "marking"
          /\ tasks[i].path = req.path
    /\ \A resource_id \in IdOf(req.spec_path, req.path) :
          deleted_key(resource_id) \in DOMAIN _state

\* C25: on one loader the file is read at most once: no call reads it
\* after a _load_spec() has returned, and the endpoint map is built at
\* most once.
C25_ParsedOnce ==
    /\ rereads = 0
    /\ builds <= 1

\* C26: list_endpoints() returns a copy: whatever a caller does to the
\* mapping it got, the loader's map stays the one built from the document,
\* and later look-ups and listings answer from it.
C26_ListIsCopy ==
    /\ _endpoint_map # 0 => maps[_endpoint_map] = EndpointMaps[self_spec_path]
    /\ (answer.call \in {"get_payload_path", "get_request_payload_path"}
           /\ answer.raised = "")
          => answer.result = Get(EndpointMaps[self_spec_path], answer.key)
    /\ (answer.call = "list_endpoints" /\ answer.raised = "")
          => answer.listed = EndpointMaps[self_spec_path]
C26_Witness ==
    /\ answer.mutated
    /\ answer.raised = ""
    /\ answer.call = "get_payload_path"
    /\ answer.key = ListKey
    /\ \E h \in handed : ListKey \notin DOMAIN maps[h]

C28_SameStatusAsCodeMock ==
    mock_response # 0 => resp.status = mock_response

\* C29: whenever start() returns a port, also after a stop(), the server
\* thread is alive and runs a listener on that port that has not been
\* told to exit.
C29_StartReturnsLiveListener ==
    [][(start_pc' = "returned" /\ start_pc # "returned")
          => /\ _server_thread' = "alive"
             /\ listening'
             /\ ~should_exit'
             /\ returned' = port']_vars

\* C30: a start() on a server whose thread is alive, after a start() that
\* returned a port, creates no thread, returns that same port and leaves
\* _state as it is; and get_base_url() reports the port start() returned.
C30_StartIsIdempotent ==
    [][/\ (/\ start_pc = "called"
           /\ start_pc' # "called"
           /\ _server_thread = "alive"
           /\ returned # 0)
          => /\ start_pc' = "returned"
             /\ threads' = threads
             /\ returned' = returned
             /\ _server_thread' = "alive"
             /\ _state' = _state
       /\ (base_url' # base_url /\ returned # 0)
          => /\ base_url'.raised = ""
             /\ base_url'.port = returned]_vars
C30_Witness ==
    /\ start_pc = "returned"
    /\ threads = 1
    /\ _server_thread = "alive"
    /\ returned = port
    /\ _state # <<>>
    /\ base_url.port = returned
    /\ should_exit

====
